---- MODULE Spec2Model ----
(***************************************************************************)
(* Model of the cheap-gpt backend: the query classifier and model catalog  *)
(* (backend/providers.py), the model router with linear fallback           *)
(* (backend/llm_router.py) and the per-IP chat history store               *)
(* (backend/fastapi_llm.py).                                               *)
(*                                                                         *)
(* A Python str is modelled as a sequence of one-character strings, so     *)
(* that len(), lower() and the substring test `kw in s` are computed and   *)
(* not assumed.                                                            *)
(***************************************************************************)
EXTENDS Integers, Sequences, FiniteSets, TLC

VARIABLES
    query,        \* classifier: the message handed to select_model_for_query
    classified,     \* classifier: what select_model_for_query returned, or Pending
    router,       \* llm_router._router: NoRouter, or the LLMRouter (keys of self.models, in order)
    inflight,     \* the invoke() coroutine of each task: idle, suspended at the await, or returned
    ai_provider,  \* the environment's AI_PROVIDER, fixed for the life of the process
    rows,         \* table chat_messages
    next_id,      \* the table's autoincrement primary key
    clock,        \* last reading of datetime.utcnow
    resp,         \* the last HTTP response of the history service
    since_purge   \* client IPs purged and not appended to since

vars == <<query, classified, router, inflight, ai_provider, rows, next_id, clock, resp, since_purge>>

classifier_vars == <<query, classified>>
router_vars == <<router, inflight>>
history_vars == <<ai_provider, rows, next_id, clock, resp, since_purge>>

(***************************************************************************)
(* Strings                                                                 *)
(***************************************************************************)
UpperAlpha == <<"A","B","C","D","E","F","G","H","I","J","K","L","M",
                "N","O","P","Q","R","S","T","U","V","W","X","Y","Z">>
LowerAlpha == <<"a","b","c","d","e","f","g","h","i","j","k","l","m",
                "n","o","p","q","r","s","t","u","v","w","x","y","z">>

\* str.lower() of one character. It is not length preserving: U+0130 (capital I
\* with dot above) lower-cases to "i" followed by the combining dot U+0307.
lower_char(c) ==
    IF \E i \in 1..Len(UpperAlpha) : UpperAlpha[i] = c
    THEN <<LowerAlpha[CHOOSE i \in 1..Len(UpperAlpha) : UpperAlpha[i] = c]>>
    ELSE IF c = "U+0130" THEN <<"i", "U+0307">>
    ELSE <<c>>

RECURSIVE str_lower(_)
str_lower(s) == IF s = <<>> THEN <<>> ELSE lower_char(Head(s)) \o str_lower(Tail(s))

\* Python's `kw in s` for strings: kw is a contiguous substring of s.
str_in(kw, s) ==
    \E i \in 0..(Len(s) - Len(kw)) : SubSeq(s, i + 1, i + Len(kw)) = kw

(***************************************************************************)
(* providers.py                                                            *)
(***************************************************************************)
\* The keys of GEMINI_MODELS in insertion order.
GEMINI_MODELS == <<"gemini-2.5-flash", "gemini-2.5-flash-lite", "gemma-3-4b", "gemma-3-1b">>

DEFAULT_MODEL == "gemini-2.5-flash"

MODEL_ROUTING ==
    [fast |-> "gemini-2.5-flash-lite",
     general |-> "gemini-2.5-flash",
     code |-> "gemini-2.5-flash",
     creative |-> "gemini-2.5-flash"]

code_keywords ==
    { <<"c","o","d","e">>,
      <<"f","u","n","c","t","i","o","n">>,
      <<"c","l","a","s","s">>,
      <<"d","e","f"," ">>,
      <<"c","o","n","s","t"," ">>,
      <<"v","a","r"," ">>,
      <<"i","m","p","o","r","t">>,
      <<"e","r","r","o","r">>,
      <<"b","u","g">>,
      <<"d","e","b","u","g">>,
      <<"p","y","t","h","o","n">>,
      <<"j","a","v","a","s","c","r","i","p","t">> }

ShortQueryLen == 50

\* A plausible slip: the keyword scan runs on the query as typed.
routing_key_case_sensitive(q) ==
    IF Len(q) < ShortQueryLen THEN "fast"
    ELSE IF \E kw \in code_keywords : str_in(kw, q) THEN "code"
    ELSE "general"

\* The key of MODEL_ROUTING that select_model_for_query indexes for query q.
routing_key(q) ==
    LET query_lower == str_lower(q)
        query_len == Len(q)
    IN  IF query_len < ShortQueryLen THEN "fast"
        ELSE IF \E kw \in code_keywords : str_in(kw, query_lower) THEN "code"
        ELSE "general"

select_model_for_query(q) == MODEL_ROUTING[routing_key(q)]

\* The queries the classifier is applied to: a core, after 0 to MaxPad characters
\* that belong to no keyword.
RECURSIVE Fill(_)
Fill(n) == IF n = 0 THEN <<>> ELSE <<"x">> \o Fill(n - 1)

MaxPad == 52

upper_char(c) ==
    IF \E i \in 1..Len(LowerAlpha) : LowerAlpha[i] = c
    THEN UpperAlpha[CHOOSE i \in 1..Len(LowerAlpha) : LowerAlpha[i] = c]
    ELSE c

str_upper(s) == [i \in 1..Len(s) |-> upper_char(s[i])]

Front(s) == SubSeq(s, 1, Len(s) - 1)

\* What a query is built around: every keyword as written, in capitals, with its
\* first letter capitalised and with its last character missing, and a few
\* fragments that hold no keyword.
Cores ==
    code_keywords
    \cup { str_upper(kw) : kw \in code_keywords }
    \cup { <<upper_char(Head(kw))>> \o Tail(kw) : kw \in code_keywords }
    \cup { Front(kw) : kw \in code_keywords }
    \cup { <<>>,
           <<"h","i">>,
           <<"b"," ","u","g">>,
           <<"U+0130","m","p","o","r","t">>,
           <<"f","i","x"," ","t","h","i","s"," ","B","u","G">> }

Queries == { Fill(n) \o core : n \in 0..MaxPad, core \in Cores }

(***************************************************************************)
(* llm_router.py                                                           *)
(***************************************************************************)
Range(s) == { s[i] : i \in 1..Len(s) }

\* Python's None, and str() of None and of an exception.
None == [reason |-> "None"]
py_str(e) == e.reason

\* llm_router._router before the first get_llm_router(): None.
NoRouter == [built |-> FALSE, models |-> <<>>]

\* What the provider call may raise, and what it may answer.
Reasons == {"429 quota exceeded", "504 deadline exceeded"}
Exceptions == { [reason |-> r] : r \in Reasons }
Contents == { <<"hello">>, <<"sure">> }

\* What invoke() is called with: a short message that holds a keyword and a long
\* one that holds one; "auto", every catalog id and an id the catalog does not know.
Messages ==
    { <<"f","i","x"," ","t","h","i","s"," ","b","u","g">>,
      Fill(50) \o <<" ","f","u","n","c","t","i","o","n">> }
RequestedModels == {"auto", "gpt-4"} \cup Range(GEMINI_MODELS)

\* The tasks of the event loop, each of which calls invoke() once; they may be
\* inside invoke() at the same time.
Tasks == {"t1", "t2"}

NoModelsText == <<"No models available. Check GOOGLE_API_KEY.">>
AllFailedText(last_error) == <<"All models failed. Last error: ", py_str(last_error)>>
NoResult == [text |-> <<>>, model_id |-> "pending"]
NoOutcome == [ok |-> FALSE, value |-> None]

\* LLMRouter.__init__ and _init_models: self.models after construction, given the
\* API key's presence and the models whose handle the constructor failed to build.
LLMRouter(api_key, init_fails) ==
    [built |-> TRUE,
     models |-> IF ~api_key THEN <<>>
                ELSE SelectSeq(GEMINI_MODELS, LAMBDA m : m \notin init_fails)]

\* A plausible slip: the classifier's choice is used whatever model was requested.
selected_model_auto_only(message, model) ==
    select_model_for_query(message)

\* invoke, lines 41-44.
selected_model(message, model) ==
    IF model = "auto" THEN select_model_for_query(message)
    ELSE IF model \in Range(router.models) THEN model ELSE DEFAULT_MODEL

\* A plausible slip: the target is not moved to the front.
models_to_try_in_catalog_order(target) == router.models

\* A plausible slip: the target is not filtered out of the tail.
models_to_try_with_duplicate(target) == <<target>> \o router.models

\* invoke, lines 46-48.
models_to_try(target) ==
    <<target>> \o SelectSeq(router.models, LAMBDA m : m # target)

\* invoke, lines 51-53: the position of the first candidate at or after `from`
\* that is a key of `live`; 0 when the loop runs off the list.
next_live(candidates, from, live) ==
    IF \E i \in from..Len(candidates) : candidates[i] \in Range(live)
    THEN CHOOSE i \in from..Len(candidates) :
            /\ candidates[i] \in Range(live)
            /\ \A j \in from..(i - 1) : candidates[j] \notin Range(live)
    ELSE 0

\* The models whose call has raised in invocation inv, and in any invocation that
\* a task still holds.
FailedCalls(inv) ==
    { inv.calls[i].model_id : i \in { j \in 1..Len(inv.calls) : inv.calls[j].status = "raised" } }
FailedSoFar == UNION { FailedCalls(inflight[t]) : t \in Tasks }

\* invoke, lines 51-63, from position `from` of the candidate list on: either the
\* coroutine suspends at the await of line 56 on the next live candidate, or the
\* list is exhausted and line 63 returns.
loop_from(inv, from, live) ==
    LET i == next_live(inv.models_to_try, from, live)
    IN  IF i # 0
        THEN [inv EXCEPT !.pc = "await",
                         !.idx = i,
                         !.calls = Append(@, [model_id |-> inv.models_to_try[i], status |-> "pending"])]
        ELSE [inv EXCEPT !.pc = "done",
                         !.idx = 0,
                         !.last_error = None,
                         !.result = [text |-> AllFailedText(inv.last_error), model_id |-> "error"]]

\* The locals of one invoke() call, with what the provider saw of it: `calls` lists
\* the calls made, `outcome` is what the last one answered or raised, and `retried`
\* tells that the model of the first call had raised in another invocation before.
Frame(message, model) ==
    [message |-> message, model |-> model, pc |-> "start",
     models_to_try |-> <<>>, idx |-> 0, last_error |-> None,
     calls |-> <<>>, outcome |-> NoOutcome, retried |-> FALSE,
     result |-> NoResult]

IdleFrame ==
    [message |-> <<>>, model |-> "", pc |-> "idle",
     models_to_try |-> <<>>, idx |-> 0, last_error |-> None,
     calls |-> <<>>, outcome |-> NoOutcome, retried |-> FALSE,
     result |-> NoResult]

CanStart(t) ==
    /\ router.built
    /\ inflight[t].pc = "idle"

FirstCall(inv) ==
    [inv EXCEPT !.retried = inv.calls # <<>> /\ inv.calls[1].model_id \in FailedSoFar]

\* A plausible slip: the guard of lines 38-39 is missing.
invoke_start_unguarded(t, message, model) ==
    /\ CanStart(t)
    /\ LET inv == [Frame(message, model) EXCEPT
                      !.models_to_try = models_to_try(selected_model(message, model))]
       IN  inflight' = [inflight EXCEPT ![t] = FirstCall(loop_from(inv, 1, router.models))]
    /\ UNCHANGED <<router, classifier_vars, history_vars>>

\* invoke, lines 37-56, up to the first await.
invoke_start(t, message, model) ==
    /\ CanStart(t)
    /\ IF router.models = <<>>
       THEN inflight' = [inflight EXCEPT ![t] =
                [Frame(message, model) EXCEPT
                    !.pc = "done",
                    !.result = [text |-> NoModelsText, model_id |-> "none"]]]
       ELSE LET inv == [Frame(message, model) EXCEPT
                           !.models_to_try = models_to_try(selected_model(message, model))]
            IN  inflight' = [inflight EXCEPT ![t] = FirstCall(loop_from(inv, 1, router.models))]
    /\ UNCHANGED <<router, classifier_vars, history_vars>>

Settle(inv, status, outcome) ==
    [inv EXCEPT !.calls[Len(inv.calls)].status = status, !.outcome = outcome]

\* A plausible slip: the id returned is the one selected, not the one that answered.
call_returns_selected(t, content) ==
    /\ inflight[t].pc = "await"
    /\ LET inv == inflight[t]
       IN  inflight' = [inflight EXCEPT ![t] =
              [Settle(inv, "returned", [ok |-> TRUE, value |-> content]) EXCEPT
                  !.pc = "done", !.idx = 0, !.last_error = None,
                  !.result = [text |-> content, model_id |-> inv.models_to_try[1]]]]
    /\ UNCHANGED <<router, classifier_vars, history_vars>>

\* invoke, lines 56-57: the awaited call answers.
call_returns(t, content) ==
    /\ inflight[t].pc = "await"
    /\ LET inv == inflight[t]
       IN  inflight' = [inflight EXCEPT ![t] =
              [Settle(inv, "returned", [ok |-> TRUE, value |-> content]) EXCEPT
                  !.pc = "done", !.idx = 0, !.last_error = None,
                  !.result = [text |-> content, model_id |-> inv.models_to_try[inv.idx]]]]
    /\ UNCHANGED <<router, classifier_vars, history_vars>>

\* A plausible slip: only the first error is kept.
call_raises_keeps_first(t, e) ==
    /\ inflight[t].pc = "await"
    /\ LET inv == inflight[t]
           failed == [Settle(inv, "raised", [ok |-> FALSE, value |-> e]) EXCEPT
                         !.last_error = IF @ = None THEN e ELSE @]
       IN  inflight' = [inflight EXCEPT ![t] = loop_from(failed, inv.idx + 1, router.models)]
    /\ UNCHANGED <<router, classifier_vars, history_vars>>

\* A plausible slip: a model that raised is dropped from self.models.
call_raises_evicts(t, e) ==
    /\ inflight[t].pc = "await"
    /\ LET inv == inflight[t]
           failed == [Settle(inv, "raised", [ok |-> FALSE, value |-> e]) EXCEPT
                         !.last_error = e]
           kept == SelectSeq(router.models, LAMBDA m : m # inv.models_to_try[inv.idx])
       IN  /\ router' = [router EXCEPT !.models = kept]
           /\ inflight' = [inflight EXCEPT ![t] = loop_from(failed, inv.idx + 1, kept)]
    /\ UNCHANGED <<classifier_vars, history_vars>>

\* invoke, lines 58-63: the awaited call raises; the loop goes on to the next live
\* candidate, or returns when there is none.
call_raises(t, e) ==
    /\ inflight[t].pc = "await"
    /\ LET inv == inflight[t]
           failed == [Settle(inv, "raised", [ok |-> FALSE, value |-> e]) EXCEPT
                         !.last_error = e]
       IN  inflight' = [inflight EXCEPT ![t] = loop_from(failed, inv.idx + 1, router.models)]
    /\ UNCHANGED <<router, classifier_vars, history_vars>>

\* get_llm_router: the first call builds the singleton, every later one returns it.
get_llm_router ==
    /\ IF ~router.built
       THEN \E api_key \in BOOLEAN : \E init_fails \in SUBSET Range(GEMINI_MODELS) :
                router' = LLMRouter(api_key, init_fails)
       ELSE router' = router
    /\ UNCHANGED <<inflight, classifier_vars, history_vars>>

(***************************************************************************)
(* fastapi_llm.py                                                          *)
(***************************************************************************)
\* An HTTP request as get_client_ip reads it: the addresses of X-Forwarded-For
\* (none when the header is absent or empty) and the peer's host ("" when
\* request.client is None).
HttpRequests ==
    { [forwarded |-> <<"10.0.0.1", "10.0.0.9">>, client |-> "10.0.0.9"],
      [forwarded |-> <<>>, client |-> "10.0.0.1"],
      [forwarded |-> <<>>, client |-> ""] }

get_client_ip(req) ==
    IF req.forwarded # <<>> THEN Head(req.forwarded)
    ELSE IF req.client # "" THEN req.client ELSE "unknown"

UserMessages == {"hello"}
Providers == {"mock", "huggingface"}
HuggingFaceReplies == {<<"No response">>}

\* get_ai_response, given AI_PROVIDER ("mock" when unset) and what call_huggingface
\* would return.
get_ai_response(provider, message, hf_reply) ==
    IF provider = "huggingface" THEN hf_reply ELSE <<"Mock: ", message>>

MaxRows == 3
MaxClock == 2
MaxLimit == 1
DefaultLimit == 20

Limits == (0..MaxLimit) \cup {DefaultLimit}

Matching(ip) == { r \in rows : r.ip_address = ip }

\* POST /chat: the row is inserted with the next primary key and the reading of
\* datetime.utcnow at the insert, which is never before the last reading and may
\* equal it.
chat(req, message) ==
    /\ next_id <= MaxRows
    /\ \E hf_reply \in HuggingFaceReplies : \E now \in clock..MaxClock :
          LET ip == get_client_ip(req)
              ai_response == get_ai_response(ai_provider, message, hf_reply)
              record == [id |-> next_id,
                         user_message |-> message,
                         ai_response |-> ai_response,
                         timestamp |-> now,
                         ip_address |-> ip]
          IN  /\ rows' = rows \cup {record}
              /\ next_id' = next_id + 1
              /\ clock' = now
              /\ since_purge' = since_purge \ {ip}
              /\ resp' = [op |-> "chat", ip |-> ip,
                          user_message |-> message,
                          ai_response |-> ai_response,
                          timestamp |-> record.timestamp]
    /\ UNCHANGED <<ai_provider, classifier_vars, router_vars>>

\* The orders in which ORDER BY timestamp DESC may return the rows of `found`: rows
\* of equal timestamp come in any order.
OrderedByTimestampDesc(found) ==
    { s \in [1..Cardinality(found) -> found] :
        /\ \A i, j \in 1..Cardinality(found) : s[i] = s[j] => i = j
        /\ \A i, j \in 1..Cardinality(found) : i < j => s[i].timestamp >= s[j].timestamp }

Take(s, n) == SubSeq(s, 1, IF n < Len(s) THEN n ELSE Len(s))

\* The response model ChatHistory of one row.
ChatHistory(r) ==
    [id |-> r.id, user_message |-> r.user_message,
     ai_response |-> r.ai_response, timestamp |-> r.timestamp]

\* GET /history
get_historija(req, limit) ==
    /\ \E s \in OrderedByTimestampDesc(Matching(get_client_ip(req))) :
          resp' = [op |-> "history", ip |-> get_client_ip(req), limit |-> limit,
                   items |-> [i \in 1..Len(Take(s, limit)) |-> ChatHistory(s[i])]]
    /\ UNCHANGED <<ai_provider, rows, next_id, clock, since_purge, classifier_vars, router_vars>>

\* A plausible slip: the filter on ip_address is missing.
obrisi_historiju_unfiltered(req) ==
    /\ rows' = {}
    /\ since_purge' = since_purge \cup {get_client_ip(req)}
    /\ resp' = [op |-> "delete", ip |-> get_client_ip(req), deleted |-> Cardinality(rows)]
    /\ UNCHANGED <<ai_provider, next_id, clock, classifier_vars, router_vars>>

\* DELETE /history
obrisi_historiju(req) ==
    /\ rows' = rows \ Matching(get_client_ip(req))
    /\ since_purge' = since_purge \cup {get_client_ip(req)}
    /\ resp' = [op |-> "delete", ip |-> get_client_ip(req),
                deleted |-> Cardinality(Matching(get_client_ip(req)))]
    /\ UNCHANGED <<ai_provider, next_id, clock, classifier_vars, router_vars>>

(***************************************************************************)
(* Specifications                                                          *)
(***************************************************************************)
\* select_model_for_query has not returned yet.
Pending == [category |-> "pending", model |-> "pending"]

ClassifierIdle == query = <<>> /\ classified = Pending
RouterIdle ==
    /\ router = NoRouter
    /\ inflight = [t \in Tasks |-> IdleFrame]
EmptyStore ==
    /\ rows = {}
    /\ next_id = 1
    /\ clock = 0
    /\ resp = [op |-> "none"]
    /\ since_purge = {}
HistoryIdle == ai_provider = "mock" /\ EmptyStore

ClassifierInit ==
    /\ query \in Queries
    /\ classified = Pending
    /\ RouterIdle
    /\ HistoryIdle

Classify ==
    /\ classified = Pending
    /\ classified' = [category |-> routing_key(query),
                    model |-> select_model_for_query(query)]
    /\ UNCHANGED <<query, router_vars, history_vars>>

ClassifierNext == Classify

SpecClassifier == ClassifierInit /\ [][ClassifierNext]_vars

RouterInit ==
    /\ ClassifierIdle
    /\ RouterIdle
    /\ HistoryIdle

RouterNext ==
    \/ get_llm_router
    \/ \E t \in Tasks : \E message \in Messages : \E model \in RequestedModels :
          invoke_start(t, message, model)
    \/ \E t \in Tasks : \E content \in Contents : call_returns(t, content)
    \/ \E t \in Tasks : \E e \in Exceptions : call_raises(t, e)

SpecRouter == RouterInit /\ [][RouterNext]_vars

HistoryInit ==
    /\ ClassifierIdle
    /\ RouterIdle
    /\ ai_provider \in Providers
    /\ EmptyStore

HistoryNext ==
    \/ \E req \in HttpRequests : \E message \in UserMessages : chat(req, message)
    \/ \E req \in HttpRequests : \E limit \in Limits : get_historija(req, limit)
    \/ \E req \in HttpRequests : obrisi_historiju(req)

SpecHistory == HistoryInit /\ [][HistoryNext]_vars

(***************************************************************************)
(* Claims about the classifier, under SpecClassifier                        *)
(***************************************************************************)
\* The reference rule of the classifier, read off the lower-cased message
\* position by position.
HasCodeKeyword(q) ==
    LET low == str_lower(q)
    IN  \E kw \in code_keywords : \E p \in 1..Len(low) :
            /\ p + Len(kw) - 1 <= Len(low)
            /\ \A k \in 1..Len(kw) : low[p + k - 1] = kw[k]

ReferenceCategory(q) ==
    CASE Len(q) < 50 -> "fast"
      [] Len(q) >= 50 /\ HasCodeKeyword(q) -> "code"
      [] Len(q) >= 50 /\ ~HasCodeKeyword(q) -> "general"

\* C6: for every message the classifier yields `fast` when the message is shorter
\* than 50 characters whatever it contains, otherwise `code` when the lower-cased
\* message contains a code keyword, otherwise `general`; it never yields
\* `creative`, and the model returned is the routing table's entry of that category.
C6_ClassifierFollowsReferenceRule ==
    classified # Pending =>
        /\ classified.category = ReferenceCategory(query)
        /\ classified.category # "creative"
        /\ classified.model = MODEL_ROUTING[ReferenceCategory(query)]

\* A query of 50 characters or more that holds a keyword only in capitals has been
\* classified `code`.
C6_Witness ==
    /\ classified # Pending
    /\ Len(query) >= 50
    /\ classified.category = "code"
    /\ ~(\E kw \in code_keywords : str_in(kw, query))

(***************************************************************************)
(* Claims about the router, under SpecRouter                               *)
(***************************************************************************)
Live == Range(router.models)
CalledModels(inv) == [i \in 1..Len(inv.calls) |-> inv.calls[i].model_id]
LiveCandidates(inv) == SelectSeq(inv.models_to_try, LAMBDA m : m \in Live)
IsPrefix(a, b) == Len(a) <= Len(b) /\ SubSeq(b, 1, Len(a)) = a
Succeeded(inv) == { i \in 1..Len(inv.calls) : inv.calls[i].status = "returned" }

\* C1: when a call of an invocation has succeeded, the invocation has returned the
\* id of the first candidate, in candidate order, whose call succeeded, with that
\* call's output as text: every live candidate before it was called and raised, and
\* none after it was called.
C1_FirstSuccessIsReturned ==
    \A t \in Tasks :
        LET inv == inflight[t]
        IN  Succeeded(inv) # {} =>
                LET i == CHOOSE k \in Succeeded(inv) : \A l \in Succeeded(inv) : k <= l
                IN  /\ inv.pc = "done"
                    /\ inv.result.model_id = inv.calls[i].model_id
                    /\ inv.outcome.ok
                    /\ inv.result.text = inv.outcome.value
                    /\ i = Len(inv.calls)
                    /\ \A j \in 1..(i - 1) : inv.calls[j].status = "raised"
                    /\ IsPrefix(CalledModels(inv), LiveCandidates(inv))
                    /\ inv.calls[i].model_id = LiveCandidates(inv)[i]

\* The first call of an invocation raised, the second answered, and the invocation
\* has returned.
C1_Witness ==
    \E t \in Tasks :
        /\ inflight[t].pc = "done"
        /\ Len(inflight[t].calls) = 2
        /\ inflight[t].calls[1].status = "raised"
        /\ inflight[t].calls[2].status = "returned"
        /\ inflight[t].result.model_id = inflight[t].models_to_try[2]

\* C2: on a router whose self.models is empty, every invocation has returned the
\* fixed diagnostic text with the id "none" and has made no call, whatever the
\* message and the requested model.
C2_EmptyRouterReturnsNone ==
    \A t \in Tasks :
        (router.models = <<>> /\ inflight[t].pc # "idle") =>
            /\ inflight[t].pc = "done"
            /\ inflight[t].result = [text |-> NoModelsText, model_id |-> "none"]
            /\ inflight[t].calls = <<>>

\* An invocation with an explicit catalog id has returned on a router without models.
C2_Witness ==
    \E t \in Tasks :
        /\ router.built
        /\ router.models = <<>>
        /\ inflight[t].pc = "done"
        /\ inflight[t].model \in Range(GEMINI_MODELS)
        /\ inflight[t].result.model_id = "none"

AllAttemptedAndFailed(inv) ==
    /\ Range(CalledModels(inv)) = Live
    /\ \A i \in 1..Len(inv.calls) : inv.calls[i].status = "raised"

\* C3: on a router with at least one model, an invocation has returned the id
\* "error" exactly when every live model was called and every call raised; the text
\* then embeds the exception the last call raised, which is never None.
C3_ErrorIffAllLiveFailed ==
    \A t \in Tasks :
        LET inv == inflight[t]
        IN  router.models # <<>> =>
                /\ (inv.result.model_id = "error") <=> AllAttemptedAndFailed(inv)
                /\ inv.result.model_id = "error" =>
                      /\ inv.pc = "done"
                      /\ ~inv.outcome.ok
                      /\ inv.outcome.value \in Exceptions
                      /\ inv.result.text = AllFailedText(inv.outcome.value)
                      /\ inv.result.text # AllFailedText(None)

\* Every one of three live models raised and the invocation has returned "error".
C3_Witness ==
    \E t \in Tasks :
        /\ Len(router.models) = 3
        /\ inflight[t].result.model_id = "error"
        /\ Len(inflight[t].calls) = 3

\* C4: an invocation whose requested model is a key of self.models makes its first
\* call to that model.
C4_RequestedLiveModelFirst ==
    \A t \in Tasks :
        (inflight[t].pc # "idle" /\ inflight[t].model \in Live) =>
            /\ inflight[t].calls # <<>>
            /\ inflight[t].calls[1].model_id = inflight[t].model

\* The last model of the catalog was requested for a long message, while the default
\* model and the classifier's choice are live too, and it was called first.
C4_Witness ==
    \E t \in Tasks :
        /\ inflight[t].model = "gemma-3-1b"
        /\ Len(inflight[t].message) >= 50
        /\ Live = Range(GEMINI_MODELS)
        /\ inflight[t].calls # <<>>
        /\ inflight[t].calls[1].model_id = "gemma-3-1b"

\* C5: an invocation with model "auto" and a message shorter than 50 characters
\* makes its first call to the routing table's `fast` model when that model is
\* live; when it is not, that model is never called and the live models are called
\* in the insertion order of self.models, until one answers or all have raised.
C5_AutoShortRoutesToFast ==
    \A t \in Tasks :
        LET inv == inflight[t]
        IN  (inv.pc # "idle" /\ inv.model = "auto" /\ Len(inv.message) < 50
                /\ router.models # <<>>) =>
                IF MODEL_ROUTING.fast \in Live
                THEN inv.calls[1].model_id = MODEL_ROUTING.fast
                ELSE /\ MODEL_ROUTING.fast \notin Range(CalledModels(inv))
                     /\ IsPrefix(CalledModels(inv), router.models)
                     /\ inv.pc = "done" =>
                            \/ inv.calls[Len(inv.calls)].status = "returned"
                            \/ CalledModels(inv) = router.models

\* The `fast` model is not live; the first live model raised and the second answered.
C5_Witness ==
    \E t \in Tasks :
        /\ inflight[t].model = "auto"
        /\ Len(inflight[t].message) < 50
        /\ MODEL_ROUTING.fast \notin Live
        /\ inflight[t].pc = "done"
        /\ Len(inflight[t].calls) = 2
        /\ inflight[t].calls[2].status = "returned"

\* C9: within one invocation no model is called twice, so the number of calls never
\* exceeds the number of live models.
C9_EachModelCalledAtMostOnce ==
    \A t \in Tasks :
        LET called == CalledModels(inflight[t])
        IN  /\ \A i, j \in 1..Len(called) : called[i] = called[j] => i = j
            /\ Len(called) <= Len(router.models)

\* The target is the first key of self.models; it and every other live model raised.
C9_Witness ==
    \E t \in Tasks :
        /\ Len(router.models) >= 2
        /\ inflight[t].models_to_try # <<>>
        /\ inflight[t].models_to_try[1] = router.models[1]
        /\ inflight[t].result.model_id = "error"
        /\ Len(inflight[t].calls) = Len(router.models)

CallsFollowLiveCandidates ==
    \A t \in Tasks : IsPrefix(CalledModels(inflight[t]), LiveCandidates(inflight[t]))

\* C10: once built, the router's self.models never changes, whatever invocations
\* start, succeed or fail and however they interleave; so every invocation calls the
\* live candidates of its list in order, skipping none that raised before.
C10_RouterStateIsReadOnly ==
    [][ /\ router.built => router' = router
        /\ CallsFollowLiveCandidates' ]_vars

\* An invocation made its first call to a model that had raised in the other
\* invocation, and that call answered.
C10_Witness ==
    \E t \in Tasks :
        /\ inflight[t].retried
        /\ inflight[t].calls[1].status = "returned"

(***************************************************************************)
(* Claims about the history store, under SpecHistory                       *)
(***************************************************************************)
MostRecentlyAppended(ip) ==
    CHOOSE r \in Matching(ip) : \A q \in Matching(ip) : q.id <= r.id

\* C7: an append for a client IP followed by list(ip, limit=1) returns exactly the
\* exchange most recently appended for that ip.
C7_ListOneReturnsMostRecent ==
    [][ (/\ resp.op = "chat"
         /\ resp'.op = "history"
         /\ resp'.ip = resp.ip
         /\ resp'.limit = 1)
        => resp'.items = <<ChatHistory(MostRecentlyAppended(resp.ip))>> ]_vars

\* C8: purge(ip) returns the number of stored exchanges whose client IP is ip and
\* leaves none of them, and a list(ip) of an ip purged and not appended to since
\* returns the empty sequence, whatever the limit.
C8_PurgeCountsAndEmpties ==
    [][ /\ resp'.op = "delete" =>
              /\ resp'.deleted = Cardinality(Matching(resp'.ip))
              /\ \A r \in rows' : r.ip_address # resp'.ip
        /\ (resp'.op = "history" /\ resp'.ip \in since_purge) => resp'.items = <<>>
      ]_vars

\* Two exchanges of an ip were purged while the other ip keeps one, and the purged
\* ip's history was then listed with a limit of 20.
C8_Witness ==
    /\ resp.op = "history"
    /\ resp.ip \in since_purge
    /\ resp.limit = DefaultLimit
    /\ Cardinality(rows) = 1
    /\ next_id = 4

====
